---------------------------- MODULE Spec2Model ----------------------------
(***************************************************************************)
(* A model of the Inside Airbnb (Ghent) dashboard: the dataset cache of    *)
(* charts.py and the two Dash callbacks of callbacks.py.                   *)
(*                                                                         *)
(* A DataFrame is a record [cols, index, rows]: the set of column names,   *)
(* the sequence of index labels and, parallel to it, the sequence of rows; *)
(* a row is a function from the column names to cells.                     *)
(*                                                                         *)
(* Cells.  Text read from the CSV is a sequence of one-character strings.  *)
(* A float is an integer count of 1/PriceUnit (price, price bounds),       *)
(* of 1/NightsUnit (minimum_nights, min-nights) or of whole units          *)
(* (coordinates).  A numeric cell that may be missing is a record          *)
(* [k, v].  A raw minimum_nights cell is [k, v] with k one of "num",       *)
(* "nan" (empty cell) and "str" (text pandas.to_numeric cannot parse).     *)
(* A missing string cell is the string "NaN", which is what read_csv       *)
(* turns into a missing value.                                             *)
(***************************************************************************)
EXTENDS Integers, Sequences, FiniteSets, TLC

VARIABLES
    file,          \* what pd.read_csv(DATA_PATH) yields (the CSV on disk)
    df_cache,      \* charts._df_cache
    reads,         \* number of pd.read_csv calls made so far
    room_types,    \* Input("room-type", "value")
    price_range,   \* Input("price-range", "value")
    min_nights,    \* Input("min-nights", "value")
    selectedData,  \* listings-map.selectedData
    hoverData,     \* listings-map.hoverData
    n_clicks,      \* clear-selection.n_clicks
    out            \* what the last update_all call returned (nothing if it raised)

vars == <<file, df_cache, reads, room_types, price_range, min_nights,
          selectedData, hoverData, n_clicks, out>>

-----------------------------------------------------------------------------
(* Bounds of the model. *)

\* Longest table (number of listings) in the event specification.
MaxRows == 2
\* Longest lasso/box selection (number of selected points).
MaxPoints == 2
\* Number of clicks on "Clear map selection" that are explored.
MaxClicks == 1
\* Longest raw price text in the normalization specification.
MaxPriceLen == 3
\* A night is NightsUnit units: minimum_nights and min-nights are fractions.
NightsUnit == 2

-----------------------------------------------------------------------------
(* Generic helpers. *)

RECURSIVE Pow10(_)
Pow10(n) == IF n = 0 THEN 1 ELSE 10 * Pow10(n - 1)

\* A price is a count of 1/PriceUnit: every text of at most MaxPriceLen
\* characters has an exact value.
PriceUnit == Pow10(MaxPriceLen)

Abs(x) == IF x < 0 THEN -x ELSE x

Range(s) == {s[i] : i \in 1..Len(s)}

\* All sequences over S of length at most n.
SeqsUpTo(S, n) == UNION {[1..k -> S] : k \in 0..n}

\* A cell [k, v]: a number ("num"), a missing value ("nan"), Python's None
\* or an absent dictionary key ("none"), or something float() and
\* pandas.to_numeric cannot parse ("bad", "str").
Num(x) == [k |-> "num", v |-> x]
NaN == [k |-> "nan", v |-> 0]
Absent == [k |-> "none", v |-> 0]
Bad == [k |-> "bad", v |-> 0]

-----------------------------------------------------------------------------
(* Text and numbers. *)

DigitChars == <<"0", "1", "2", "3", "4", "5", "6", "7", "8", "9">>

DigitSet == Range(DigitChars)

DigitValues == [c \in DigitSet |-> (CHOOSE i \in 1..10 : DigitChars[i] = c) - 1]

IsDigit(c) == c \in DigitSet

DigitValue(c) == DigitValues[c]

\* The integer a sequence of digits denotes (0 for the empty sequence).
RECURSIVE DigitsValue(_)
DigitsValue(s) ==
    IF s = <<>> THEN 0
    ELSE 10 * DigitsValue(SubSeq(s, 1, Len(s) - 1)) + DigitValue(s[Len(s)])

\* str.replace(r"[^\d.]", "", regex=True): keep digits and dots only.
StripNonDigitDot(s) == SelectSeq(s, LAMBDA c : IsDigit(c) \/ c = ".")

\* Whether float() / to_numeric accept a text: digits with at most one dot
\* and at least one digit (signs and exponents never reach this point).
ValidFloat(s) ==
    /\ \A i \in 1..Len(s) : IsDigit(s[i]) \/ s[i] = "."
    /\ Cardinality({i \in 1..Len(s) : s[i] = "."}) <= 1
    /\ \E i \in 1..Len(s) : IsDigit(s[i])

\* The value of an accepted text, in units of 1/PriceUnit.
FloatValue(s) ==
    LET dots == {i \in 1..Len(s) : s[i] = "."}
        p == IF dots = {} THEN Len(s) + 1 ELSE CHOOSE i \in dots : TRUE
        ip == SubSeq(s, 1, p - 1)
        fp == SubSeq(s, p + 1, Len(s))
    IN  DigitsValue(ip) * PriceUnit + DigitsValue(fp) * Pow10(MaxPriceLen - Len(fp))

RECURSIVE Digits(_)
Digits(n) ==
    IF n < 10 THEN <<DigitChars[n + 1]>>
    ELSE Digits(n \div 10) \o <<DigitChars[(n % 10) + 1]>>

\* The w digits of f (zero padded), without trailing zeros but never empty.
RECURSIVE FracDigits(_, _)
FracDigits(f, w) ==
    IF w = 1 THEN <<DigitChars[f + 1]>>
    ELSE IF f % 10 = 0 THEN FracDigits(f \div 10, w - 1)
    ELSE FracDigits(f \div 10, w - 1) \o <<DigitChars[(f % 10) + 1]>>

\* astype(str) of a non-negative float: "12.0", "0.5", "1234.5".
FormatFloat(x) ==
    Digits(x \div PriceUnit) \o <<".">> \o FracDigits(x % PriceUnit, MaxPriceLen)

\* The four str.replace calls of update_all: drop the euro sign (written
\* "EUR" here), "$", "," and " ".
CurrencyChars == {"EUR", "$", ",", " "}

StripCurrency(s) == SelectSeq(s, LAMBDA c : c \notin CurrencyChars)

\* pd.to_numeric(text, errors="coerce"): the number, or NaN.
ToNumericText(s) == IF ValidFloat(s) THEN Num(FloatValue(s)) ELSE NaN

\* pd.to_numeric(cell, errors="coerce") of a raw numeric-or-text cell.
ToNumericCell(c) == IF c.k = "num" THEN c ELSE NaN

\* Series.fillna(d) of one cell, giving the plain number.
FillNa(c, d) == IF c.k = "num" THEN c.v ELSE d

-----------------------------------------------------------------------------
(* DataFrames. *)

EmptyFrame == [cols |-> {}, index |-> <<>>, rows |-> <<>>]

NRows(df) == Len(df.rows)

\* df[c] = F(row) for every row; the column is added when it is missing.
SetColumn(df, c, F(_)) ==
    [cols  |-> df.cols \cup {c},
     index |-> df.index,
     rows  |-> [i \in 1..NRows(df) |->
                  [x \in df.cols \cup {c} |->
                     IF x = c THEN F(df.rows[i]) ELSE df.rows[i][x]]]]

\* df[cond]: the rows satisfying P, in order, with their index labels.
FilterRows(df, P(_)) ==
    LET pos  == [i \in 1..NRows(df) |-> i]
        keep == SelectSeq(pos, LAMBDA i : P(df.rows[i]))
    IN  [cols  |-> df.cols,
         index |-> [j \in 1..Len(keep) |-> df.index[keep[j]]],
         rows  |-> [j \in 1..Len(keep) |-> df.rows[keep[j]]]]

\* What pd.read_csv makes of a table: a RangeIndex 0..n-1.
ReadCsv(cols, rows) ==
    [cols |-> cols, index |-> [i \in 1..Len(rows) |-> i - 1], rows |-> rows]


-----------------------------------------------------------------------------
(* charts.py: the dataset cache. *)

NoCache == [set |-> FALSE, df |-> EmptyFrame]

\* The price column of _load_listings: strip, "" -> "0", astype(float).
\* astype(float) raises on a text float() rejects, such as "." or "1.2.3".
LoadPriceText(s) ==
    LET t == StripNonDigitDot(s) IN IF t = <<>> THEN <<"0">> ELSE t

LoadRaises(f) ==
    /\ "price" \in f.cols
    /\ \E i \in 1..Len(f.rows) : ~ValidFloat(LoadPriceText(f.rows[i].price))

\* if c not in df.columns: df[c] = F(row)
EnsureColumn(df, c, F(_)) == IF c \in df.cols THEN df ELSE SetColumn(df, c, F)

\* fillna("Unknown").astype(str) of a room_type cell.
RoomTypeText(c) == IF c = "NaN" THEN "Unknown" ELSE c

\* Lines 23-31: the price column.
LoadPrice(df) ==
    IF "price" \in df.cols
    THEN SetColumn(df, "price", LAMBDA r : FloatValue(LoadPriceText(r.price)))
    ELSE SetColumn(df, "price", LAMBDA r : 0)

\* Lines 34-36: the room_type column.
LoadRoomType(df) ==
    SetColumn(EnsureColumn(df, "room_type", LAMBDA r : "Unknown"), "room_type",
              LAMBDA r : RoomTypeText(r.room_type))

\* Lines 39-40: the minimum_nights column.
LoadMinimumNights(df) ==
    EnsureColumn(df, "minimum_nights", LAMBDA r : Num(NightsUnit))

\* The frame _load_listings builds from the file (when nothing raises).
LoadedFrame(f) ==
    LoadMinimumNights(LoadRoomType(LoadPrice(ReadCsv(f.cols, f.rows))))

\* Lines 42-43: the frame is cached and returned.
CacheAndReturn(df) ==
    [df |-> df, cache |-> [set |-> TRUE, df |-> df], reads |-> 1, raised |-> FALSE]

\* _load_listings(): the frame returned, the cache afterwards, the number
\* of read_csv calls made and whether the call raised.
LoadListings(cache, f) ==
    IF cache.set
    THEN [df |-> cache.df, cache |-> cache, reads |-> 0, raised |-> FALSE]
    ELSE IF LoadRaises(f)
    THEN [df |-> EmptyFrame, cache |-> cache, reads |-> 1, raised |-> TRUE]
    ELSE CacheAndReturn(LoadedFrame(f))

-----------------------------------------------------------------------------
(* callbacks.py, update_all: normalization of the core columns. *)

\* Lines 47-52: the three columns are added when missing.
EnsureCoreColumns(df) ==
    EnsureColumn(EnsureColumn(EnsureColumn(df, "price", LAMBDA r : 0),
                              "room_type", LAMBDA r : "Unknown"),
                 "minimum_nights", LAMBDA r : Num(NightsUnit))

\* Lines 54-56: price as text, stripped, parsed, NaN filled with 0.
NormalizePrice(df) ==
    SetColumn(df, "price",
              LAMBDA r : FillNa(ToNumericText(StripCurrency(FormatFloat(r.price))), 0))

\* Line 57.
NormalizeRoomType(df) ==
    SetColumn(df, "room_type", LAMBDA r : RoomTypeText(r.room_type))

\* Line 58: parsed, NaN filled with 1.
NormalizeMinimumNights(df) ==
    SetColumn(df, "minimum_nights",
              LAMBDA r : Num(FillNa(ToNumericCell(r.minimum_nights), NightsUnit)))

\* df = charts._load_listings().copy(), then lines 47-58.
Normalize(loaded) ==
    NormalizeMinimumNights(NormalizeRoomType(NormalizePrice(EnsureCoreColumns(loaded))))

-----------------------------------------------------------------------------
(* callbacks.py, update_all: base filters from the UI controls. *)

\* A control value that is a list or None: [kind, v].
NoList == [kind |-> "none", v |-> <<>>]
List(v) == [kind |-> "list", v |-> v]

\* x or []
OrEmpty(x) == IF x.kind = "none" THEN <<>> ELSE x.v

DefaultPriceMax == 999999

\* pr = price_range or [0, 999999]
PriceList(pr) ==
    IF OrEmpty(pr) = <<>> THEN <<Num(0), Num(DefaultPriceMax)>> ELSE pr.v

\* min_nights or 1: None and 0 are falsy.
MinNightsOrOne(mn) ==
    IF mn.k = "none" \/ (mn.k = "num" /\ mn.v = 0) THEN Num(NightsUnit) ELSE mn

\* float(x) raises on None and on text that is no number.
FloatRaises(c) == c.k # "num"

\* Lines 61-65 raise when a float() call does.
CriteriaRaise(pr, mn) ==
    \/ FloatRaises(PriceList(pr)[1])
    \/ Len(PriceList(pr)) > 1 /\ FloatRaises(PriceList(pr)[2])
    \/ FloatRaises(MinNightsOrOne(mn))

\* pmin and pmax, in whole units of the currency.
PMin(pr) == PriceList(pr)[1].v

PMax(pr) ==
    IF Len(PriceList(pr)) > 1 THEN PriceList(pr)[2].v ELSE DefaultPriceMax

\* A price, in 1/PriceUnit, compared with a whole number of units.
PriceAtLeast(p, n) == p \div PriceUnit >= n

PriceAtMost(p, n) == (p + PriceUnit - 1) \div PriceUnit <= n

MNights(mn) == MinNightsOrOne(mn).v

\* rtypes = set(room_types or [])
RTypes(rt) == Range(OrEmpty(rt))

\* Cond with the two price comparisons the wrong way round.
CondSwapped(r, rt, pr, mn) ==
    /\ PriceAtMost(r.price, PMin(pr))
    /\ PriceAtLeast(r.price, PMax(pr))
    /\ r.minimum_nights.v >= MNights(mn)
    /\ (RTypes(rt) # {} => r.room_type \in RTypes(rt))

\* cond of lines 67-69, for one row.
Cond(r, rt, pr, mn) ==
    /\ PriceAtLeast(r.price, PMin(pr))
    /\ PriceAtMost(r.price, PMax(pr))
    /\ r.minimum_nights.v >= MNights(mn)
    /\ (RTypes(rt) # {} => r.room_type \in RTypes(rt))

\* dff = df[cond].copy()
BaseFilter(df, rt, pr, mn) == FilterRows(df, LAMBDA r : Cond(r, rt, pr, mn))

-----------------------------------------------------------------------------
(* callbacks.py, update_all: area focus based on hover. *)

NoPayload == [kind |-> "none", points |-> <<>>]

\* hoverData / selectedData that is a non-empty dict with these points.
Payload(points) == [kind |-> "dict", points |-> points]

\* A truthy value that is not a dict.
NotADict == [kind |-> "other", points |-> <<>>]

AreaCols == <<"neighbourhood_cleansed", "neighborhood">>

HasAreaCol(df) == \E i \in 1..Len(AreaCols) : AreaCols[i] \in df.cols

\* The first of AreaCols that is a column.
AreaCol(df) ==
    AreaCols[CHOOSE i \in 1..Len(AreaCols) :
               /\ AreaCols[i] \in df.cols
               /\ \A j \in 1..(i - 1) : AreaCols[j] \notin df.cols]

HasCoords(df) == {"latitude", "longitude"} \subseteq df.cols

\* pt = (hoverData.get("points") or [{}])[0]
HoverPoint(hov) ==
    IF hov.points = <<>> THEN [lat |-> Absent, lon |-> Absent] ELSE hov.points[1]

\* float(pt.get(key, "nan")): a missing key gives NaN; None or text raises.
HoverFloat(c) == IF c.k = "none" THEN NaN ELSE c

\* Dif that forgets the longitude.
DifLatitude(r, lat, lon) ==
    IF r.latitude.k = "num" /\ r.longitude.k = "num" /\ lat.k = "num" /\ lon.k = "num"
    THEN Num(Abs(r.latitude.v - lat.v))
    ELSE NaN

\* dif of line 85 for one row: NaN as soon as one operand is.
Dif(r, lat, lon) ==
    IF r.latitude.k = "num" /\ r.longitude.k = "num" /\ lat.k = "num" /\ lon.k = "num"
    THEN Num(Abs(r.latitude.v - lat.v) + Abs(r.longitude.v - lon.v))
    ELSE NaN

\* dif of line 85, one cell per row.
Difs(df, lat, lon) == [i \in 1..NRows(df) |-> Dif(df.rows[i], lat, lon)]

\* Whether idxmin has a position to return: none when dif is empty or all
\* NaN (it then raises, or returns a NaN that is no index label).
IdxMinDefined(d) == \E i \in 1..Len(d) : d[i].k = "num"

\* dif.idxmin(): the first position of the smallest dif, NaN skipped.
IdxMin(d) ==
    CHOOSE i \in 1..Len(d) :
        /\ d[i].k = "num"
        /\ \A j \in 1..Len(d) :
              d[j].k = "num" => d[j].v > d[i].v \/ (d[j].v = d[i].v /\ j >= i)

\* dff[dff[area_col] == nh]: a missing value equals nothing, itself included.
AreaEquals(df, col, nh) == FilterRows(df, LAMBDA r : r[col] # "NaN" /\ r[col] = nh)

\* Lines 86-89, given dif.
FocusOnClosest(dff, d) ==
    IF ~IdxMinDefined(d) THEN dff
    ELSE IF ~HasAreaCol(dff) THEN dff
    ELSE AreaEquals(dff, AreaCol(dff), dff.rows[IdxMin(d)][AreaCol(dff)])

\* Lines 82-89, given pt.
FocusOnPoint(dff, lat, lon) ==
    IF lat.k = "bad" \/ lon.k = "bad" THEN dff
    ELSE IF ~HasCoords(dff) THEN dff
    ELSE FocusOnClosest(dff, Difs(dff, lat, lon))

\* Lines 79-92.
HoverFocus(dff, hov) ==
    IF hov.kind # "dict" THEN dff
    ELSE FocusOnPoint(dff, HoverFloat(HoverPoint(hov).lat),
                      HoverFloat(HoverPoint(hov).lon))

-----------------------------------------------------------------------------
(* callbacks.py, update_all: lasso/box selection. *)

\* ids of lines 98-102: cd[0] of every point whose customdata is a
\* non-empty list, in order.
RECURSIVE SelectedIds(_)
SelectedIds(pts) ==
    IF pts = <<>> THEN <<>>
    ELSE (IF Len(Head(pts).customdata) > 0
          THEN <<Head(pts).customdata[1]>> ELSE <<>>) \o SelectedIds(Tail(pts))

\* selected_latlon of lines 115-121: the points with both coordinates.
SelectedLatLon(pts) ==
    SelectSeq(pts, LAMBDA p : p.lat.k # "none" /\ p.lon.k # "none")

\* IdIsIn looking at the first selected identifier only.
IdIsFirst(dff, ids) == FilterRows(dff, LAMBDA r : r.id = ids[1])

\* dff[dff["id"].isin(selected_ids)]
IdIsIn(dff, ids) == FilterRows(dff, LAMBDA r : r.id \in Range(ids))

\* The rows one left row contributes to the inner merge: one per matching
\* right row, with the columns _lat and _lon added.
MergeMatches(r, cols, ll) ==
    LET m == SelectSeq(ll, LAMBDA p : r.latitude = p.lat /\ r.longitude = p.lon)
    IN  [j \in 1..Len(m) |->
           [x \in cols \cup {"_lat", "_lon"} |->
              IF x = "_lat" THEN m[j].lat
              ELSE IF x = "_lon" THEN m[j].lon ELSE r[x]]]

RECURSIVE MergeRows(_, _, _)
MergeRows(rows, cols, ll) ==
    IF rows = <<>> THEN <<>>
    ELSE MergeMatches(Head(rows), cols, ll) \o MergeRows(Tail(rows), cols, ll)

\* dff.merge(ll, left_on=[latitude, longitude], right_on=[_lat, _lon],
\* how="inner"): a fresh RangeIndex.
Merge(dff, ll) ==
    ReadCsv(dff.cols \cup {"_lat", "_lon"}, MergeRows(dff.rows, dff.cols, ll))

\* UnlessEmpty without its test: an empty subset is taken as it is.
EvenIfEmpty(subset, dff) == subset

\* if not subset.empty: dff_sel = subset (lines 111-112, 126-127).
UnlessEmpty(subset, dff) == IF NRows(subset) > 0 THEN subset ELSE dff

\* Lines 106-127, given selected_ids and selected_latlon.
NarrowTo(dff, ids, ll) ==
    IF ids # <<>> /\ "id" \in dff.cols
    THEN UnlessEmpty(IdIsIn(dff, ids), dff)
    ELSE IF ll # <<>> /\ HasCoords(dff)
         THEN UnlessEmpty(Merge(dff, ll), dff)
         ELSE dff

\* selectedData.get("points") of a selectedData that is a non-empty dict.
SelectionPoints(sel) == IF sel.kind = "dict" THEN sel.points ELSE <<>>

\* Lines 94-127: dff_sel.
SelectionFocus(dff, sel) ==
    NarrowTo(dff, SelectedIds(SelectionPoints(sel)),
             SelectedLatLon(SelectionPoints(sel)))

-----------------------------------------------------------------------------
(* The map figure and its uirevision. *)

\* The room-type names in sorted() order.
RoomTypeNames ==
    <<"Entire home/apt", "Hotel room", "Private room", "Shared room", "Unknown">>

Copies(x, n) == [i \in 1..n |-> x]

RECURSIVE SortedFrom(_, _)
SortedFrom(s, i) ==
    IF i > Len(RoomTypeNames) THEN <<>>
    ELSE Copies(RoomTypeNames[i],
                Cardinality({j \in 1..Len(s) : s[j] = RoomTypeNames[i]}))
         \o SortedFrom(s, i + 1)

\* sorted(s) of a list of room-type names.
Sorted(s) == SortedFrom(s, 1)

\* clear_clicks or 0
ClearClicks(n) == n

\* uirevision_key of line 164: the four parts of the formatted string.
UiRevisionKey(rt, pr, mn, clicks) ==
    [rt |-> Sorted(OrEmpty(rt)), pr |-> OrEmpty(pr), mn |-> MNights(mn),
     cc |-> ClearClicks(clicks)]

NoKey == [rt |-> <<>>, pr |-> <<>>, mn |-> 0, cc |-> 0]

\* layout.uirevision of the figure make_map_figure returns: the key it is
\* given on the blank-map path (lines 66-86), the literal "keep" otherwise
\* (line 125).
MapUiRevision(dff, key) ==
    IF NRows(dff) = 0 \/ ~HasCoords(dff)
    THEN [keep |-> FALSE, key |-> key]
    ELSE [keep |-> TRUE, key |-> NoKey]

\* custom_data of lines 101-102.
MapCustomData(dff) ==
    IF NRows(dff) = 0 \/ ~HasCoords(dff) THEN "none"
    ELSE IF "id" \in dff.cols THEN "id"
    ELSE IF "listing_id" \in dff.cols THEN "listing_id" ELSE "none"

-----------------------------------------------------------------------------
(* callbacks.py: update_all as a whole. *)

NoOut == [status |-> "none", dff_sel |-> EmptyFrame,
          uirevision |-> [keep |-> FALSE, key |-> NoKey], custom_data |-> "none"]

\* update_all normalizing the cached frame itself, not a copy of it.
CacheAliased(cache, normalized) == [set |-> TRUE, df |-> normalized]

\* The cache once update_all has normalized its copy of the frame (line 45):
\* the copy leaves the cached frame alone.
CacheAfterNormalize(cache, normalized) == cache

\* The three stages on the normalized frame.
Base(df, rt, pr, mn) == BaseFilter(Normalize(df), rt, pr, mn)

StageA(df, rt, pr, mn, hov) == HoverFocus(Base(df, rt, pr, mn), hov)

StageB(df, rt, pr, mn, hov, sel) ==
    SelectionFocus(StageA(df, rt, pr, mn, hov), sel)

\* Lines 129-168: the figures built from dff_sel.
Figures(dff_sel, key) ==
    [status |-> "ok", dff_sel |-> dff_sel,
     uirevision |-> MapUiRevision(dff_sel, key),
     custom_data |-> MapCustomData(dff_sel)]

\* A call that raised returned no figures.
Raised == [NoOut EXCEPT !.status = "error"]

\* update_all from line 47 on, given what _load_listings did.
Render(ld, rt, pr, mn, sel, hov, clicks) ==
    IF ld.raised
    THEN [cache |-> ld.cache, reads |-> ld.reads, out |-> Raised]
    ELSE [cache |-> CacheAfterNormalize(ld.cache, Normalize(ld.df)),
          reads |-> ld.reads,
          out |-> IF CriteriaRaise(pr, mn)
                  THEN Raised
                  ELSE Figures(StageB(ld.df, rt, pr, mn, hov, sel),
                               UiRevisionKey(rt, pr, mn, clicks))]

\* What update_all hands back for the page: the frame the three charts are
\* built from and the map's uirevision, with the cache and the number of
\* read_csv calls.
UpdateAll(cache, f, rt, pr, mn, sel, hov, clicks) ==
    Render(LoadListings(cache, f), rt, pr, mn, sel, hov, clicks)

-----------------------------------------------------------------------------
(* The events.  Dash runs one callback cycle per user event: the event     *)
(* changes a property and update_all recomputes the three figures from the *)
(* properties' current values.  An event action takes the set its new      *)
(* value is drawn from.                                                    *)

Recompute(rt, pr, mn, sel, hov, clicks) ==
    \E u \in {UpdateAll(df_cache, file, rt, pr, mn, sel, hov, clicks)} :
        /\ df_cache' = u.cache
        /\ reads' = reads + u.reads
        /\ out' = u.out

\* The initial call Dash makes when the page is loaded.
PageLoad ==
    /\ out.status = "none"
    /\ Recompute(room_types, price_range, min_nights, selectedData, hoverData, n_clicks)
    /\ UNCHANGED <<file, room_types, price_range, min_nights, selectedData,
                   hoverData, n_clicks>>

ChangeRoomType(D) ==
    /\ out.status # "none"
    /\ \E v \in D :
          /\ v # room_types
          /\ room_types' = v
          /\ Recompute(v, price_range, min_nights, selectedData, hoverData, n_clicks)
    /\ UNCHANGED <<file, price_range, min_nights, selectedData, hoverData, n_clicks>>

ChangePriceRange(D) ==
    /\ out.status # "none"
    /\ \E v \in D :
          /\ v # price_range
          /\ price_range' = v
          /\ Recompute(room_types, v, min_nights, selectedData, hoverData, n_clicks)
    /\ UNCHANGED <<file, room_types, min_nights, selectedData, hoverData, n_clicks>>

ChangeMinNights(D) ==
    /\ out.status # "none"
    /\ \E v \in D :
          /\ v # min_nights
          /\ min_nights' = v
          /\ Recompute(room_types, price_range, v, selectedData, hoverData, n_clicks)
    /\ UNCHANGED <<file, room_types, price_range, selectedData, hoverData, n_clicks>>

Hover(D) ==
    /\ out.status # "none"
    /\ \E h \in D :
          /\ h # hoverData
          /\ hoverData' = h
          /\ Recompute(room_types, price_range, min_nights, selectedData, h, n_clicks)
    /\ UNCHANGED <<file, room_types, price_range, min_nights, selectedData, n_clicks>>

Select(D) ==
    /\ out.status # "none"
    /\ \E s \in D :
          /\ s # selectedData
          /\ selectedData' = s
          /\ Recompute(room_types, price_range, min_nights, s, hoverData, n_clicks)
    /\ UNCHANGED <<file, room_types, price_range, min_nights, hoverData, n_clicks>>

\* A click on "Clear map selection": n_clicks goes up, clear_map_selection
\* returns (None, None) for selectedData and hoverData, and update_all,
\* which has both as inputs, runs once they are set.
ClickClear ==
    /\ out.status # "none"
    /\ n_clicks < MaxClicks
    /\ n_clicks' = n_clicks + 1
    /\ selectedData' = NoPayload
    /\ hoverData' = NoPayload
    /\ Recompute(room_types, price_range, min_nights, NoPayload, NoPayload,
                 n_clicks + 1)
    /\ UNCHANGED <<file, room_types, price_range, min_nights>>

\* The controls' values in layout.py.
DefaultRoomTypes ==
    List(<<"Entire home/apt", "Private room", "Shared room", "Hotel room", "Unknown">>)

DefaultPriceRange == List(<<Num(0), Num(400)>>)

DefaultMinNights == Num(NightsUnit)

\* The page before its first callback, over the files F.
InitOver(F) ==
    /\ file \in F
    /\ df_cache = NoCache
    /\ reads = 0
    /\ room_types = DefaultRoomTypes
    /\ price_range = DefaultPriceRange
    /\ min_nights = DefaultMinNights
    /\ selectedData = NoPayload
    /\ hoverData = NoPayload
    /\ n_clicks = 0
    /\ out = NoOut

-----------------------------------------------------------------------------
(* Inputs explored. *)

CoreCols == {"price", "room_type", "minimum_nights"}

CoordCols == {"latitude", "longitude"}

\* A row restricted to the columns a file has.
Project(r, cols) == [c \in cols |-> r[c]]

\* Rows numbered 1, 2, ... in the id column, as a stable identifier is.
WithIds(rows) ==
    [i \in 1..Len(rows) |->
       [c \in DOMAIN rows[i] \cup {"id"} |-> IF c = "id" THEN i ELSE rows[i][c]]]

\* The listings at the places xs, with the price texts ps, the room types
\* rs, the raw minimum_nights cells ns and the neighbourhoods as.
ListingPool(xs, ps, rs, ns, as) ==
    {[latitude |-> x, longitude |-> x, price |-> p,
      room_type |-> r, minimum_nights |-> n,
      neighbourhood_cleansed |-> a] :
        x \in xs, p \in ps, r \in rs, n \in ns, a \in as}

AllCols == CoreCols \cup CoordCols \cup {"neighbourhood_cleansed"}

Tables(pool, cols, n) ==
    {[i \in 1..Len(t) |-> Project(t[i], cols)] : t \in SeqsUpTo(pool, n)}

\* The files of at most n rows of the pool, with each of the column sets;
\* ids says whether files with an id column, without one, or both are drawn.
FilesOver(pool, colsets, n, ids) ==
    UNION {{[cols |-> IF withId THEN cols \cup {"id"} ELSE cols,
             rows |-> IF withId THEN WithIds(t) ELSE t] :
               t \in Tables(pool, cols, n), withId \in ids} : cols \in colsets}

\* A price range that keeps the listings priced 1 and drops those priced 3.
CheapPriceRange == List(<<Num(0), Num(2)>>)

PriceRanges == {DefaultPriceRange, CheapPriceRange}

HoverAt(x, y) == Payload(<<[lat |-> Num(x), lon |-> Num(y)]>>)

Point(x, cd) == [lat |-> Num(x), lon |-> Num(x), customdata |-> cd]

-----------------------------------------------------------------------------
(* The hover specification: filters and hover events over files whose      *)
(* listings lie at two places or nowhere, in two neighbourhoods or none.   *)

HoverListings ==
    ListingPool({Num(0), NaN}, {<<"1">>}, {"Private room"},
                {Num(NightsUnit)}, {"Centrum"})
    \cup ListingPool({Num(0)}, {<<"3">>}, {"Private room"},
                     {Num(NightsUnit)}, {"Ledeberg"})
    \cup ListingPool({Num(1)}, {<<"1">>}, {"Private room"},
                     {Num(NightsUnit)}, {"Ledeberg", "NaN"})

HoverColumnSets ==
    {CoreCols \cup UNION g : g \in SUBSET {CoordCols, {"neighbourhood_cleansed"}}}

HoverFiles == FilesOver(HoverListings, HoverColumnSets, MaxRows, {TRUE})

\* Hover payloads: none, not a dict, no points, a point with a missing or an
\* unparsable coordinate, and points on and between the listings.
HoverPayloads ==
    {NoPayload, NotADict, Payload(<<>>),
     Payload(<<[lat |-> Absent, lon |-> Num(0)]>>),
     Payload(<<[lat |-> Num(0), lon |-> Bad]>>),
     HoverAt(0, 0), HoverAt(0, 1), HoverAt(1, 1)}

InitHover == InitOver(HoverFiles)

NextHover ==
    \/ PageLoad
    \/ ChangePriceRange(PriceRanges)
    \/ Hover(HoverPayloads)

SpecHover == InitHover /\ [][NextHover]_vars

-----------------------------------------------------------------------------
(* The selection specification: hover and lasso/box events over files      *)
(* with and without an id column.                                          *)

SelectListings ==
    ListingPool({Num(0)}, {<<"1">>}, {"Private room"},
                {Num(NightsUnit)}, {"Centrum"})
    \cup ListingPool({Num(1)}, {<<"1">>}, {"Private room"},
                     {Num(NightsUnit)}, {"Ledeberg"})

SelectFiles == FilesOver(SelectListings, {AllCols}, MaxRows, {TRUE, FALSE})

\* Selected points: two that carry the identifier of the first and of the
\* second listing, and one that carries none.
SelectedPoints == {Point(0, <<1>>), Point(1, <<2>>), Point(1, <<>>)}

SelectionPayloads ==
    {NoPayload} \cup {Payload(pts) : pts \in SeqsUpTo(SelectedPoints, MaxPoints)}

FocusPayloads == {NoPayload, HoverAt(0, 0)}

InitSelect == InitOver(SelectFiles)

NextSelect ==
    \/ PageLoad
    \/ Hover(FocusPayloads)
    \/ Select(SelectionPayloads)

SpecSelect == InitSelect /\ [][NextSelect]_vars

-----------------------------------------------------------------------------
(* The page as a whole: every event, over files whose minimum_nights cells *)
(* may be empty.                                                           *)

PageListings ==
    ListingPool({Num(0)}, {<<"1">>, <<"3">>}, {"Private room"},
                {Num(NightsUnit), NaN}, {"Centrum"})

PageFiles == FilesOver(PageListings, {AllCols, CoreCols}, MaxRows, {TRUE})

PageSelections == {NoPayload, Payload(<<Point(0, <<1>>)>>)}

Init == InitOver(PageFiles)

Next ==
    \/ PageLoad
    \/ ChangePriceRange(PriceRanges)
    \/ Hover(FocusPayloads)
    \/ Select(PageSelections)
    \/ ClickClear

Spec == Init /\ [][Next]_vars

-----------------------------------------------------------------------------
(* The filter specification: the three controls over files of listings of  *)
(* two prices, two room types and three lengths of stay.                   *)

\* Longest table in the filter specification.
MaxFilterRows == 1

FilterListings ==
    ListingPool({Num(0)}, {<<"2">>}, {"Private room"},
                {Num(NightsUnit)}, {"Centrum"})
    \cup ListingPool({Num(0)}, {<<"3">>}, {"Hotel room"},
                     {Num(1), Num(2 * NightsUnit)}, {"Centrum"})

FilterFiles == FilesOver(FilterListings, {CoreCols}, MaxFilterRows, {FALSE})

RoomTypeLists ==
    {NoList, List(<<>>), List(<<"Private room">>), DefaultRoomTypes}

\* Price bounds and price ranges: missing, short, well formed, inverted.
PriceBounds == {0, 2, 400}

FilterPriceRanges ==
    {NoList, List(<<Num(2)>>)}
    \cup {List(<<Num(a), Num(b)>>) : a, b \in PriceBounds}

\* min-nights values: None, text, and 0 to two nights in steps of a unit.
MinNightsValues == {Absent, Bad} \cup {Num(n) : n \in 0..(2 * NightsUnit)}

InitFilter == InitOver(FilterFiles)

NextFilter ==
    \/ PageLoad
    \/ ChangeRoomType(RoomTypeLists)
    \/ ChangePriceRange(FilterPriceRanges)
    \/ ChangeMinNights(MinNightsValues)

SpecFilter == InitFilter /\ [][NextFilter]_vars

-----------------------------------------------------------------------------
(* The normalization specification: the first callback over files of one   *)
(* listing whose core columns are present or missing, with any raw cells.  *)

PriceChars == {"9", ".", "EUR", "n"}

RawPrices == SeqsUpTo(PriceChars, MaxPriceLen)

\* Raw minimum_nights cells: numbers below, at and above one night, an
\* empty cell and text.
RawNights ==
    {Num(0 - NightsUnit), Num(0), Num(NightsUnit), Num(2 * NightsUnit), NaN,
     [k |-> "str", v |-> 0]}

RawListings ==
    ListingPool({Num(0)}, RawPrices, {"Private room", "NaN"}, RawNights,
                {"Centrum"})

RawFiles ==
    UNION {{[cols |-> cols, rows |-> <<Project(r, cols)>>] : r \in RawListings} :
             cols \in SUBSET CoreCols}

InitLoad == InitOver(RawFiles)

NextLoad == PageLoad

SpecLoad == InitLoad /\ [][NextLoad]_vars

-----------------------------------------------------------------------------
(* What the properties below speak of, read off the current state. *)

\* The base filtered subset and the Stage A output for the current inputs.
CurBase == Base(df_cache.df, room_types, price_range, min_nights)

CurStageA == StageA(df_cache.df, room_types, price_range, min_nights, hoverData)

\* The identifiers the selected points carry, and their (lat, lon) pairs.
SelIdSet ==
    {selectedData.points[i].customdata[1] :
       i \in {j \in 1..Len(selectedData.points) :
                Len(selectedData.points[j].customdata) > 0}}

SelCoordSet ==
    {<<selectedData.points[i].lat, selectedData.points[i].lon>> :
       i \in {j \in 1..Len(selectedData.points) :
                /\ selectedData.points[j].lat.k = "num"
                /\ selectedData.points[j].lon.k = "num"}}

RowCoords(r) == <<r.latitude, r.longitude>>

\* How often a row occurs in a sequence of rows.
Occurrences(r, rows) == Cardinality({i \in 1..Len(rows) : rows[i] = r})

\* The rows of a frame that satisfy P, in order.
RowsWhere(df, P(_)) == SelectSeq(df.rows, P)

-----------------------------------------------------------------------------
(* Selection properties, checked under SpecSelect. *)

\* C1: a selection whose identifiers (ID path) or coordinates (coordinate
\* path) match no row of the subset Stage B receives is ignored: the final
\* subset is that incoming subset, which is the base filtered subset when
\* no hover is active.
StaleSelectionIgnored ==
    out.status = "ok" =>
        /\ ( /\ SelIdSet # {}
             /\ "id" \in CurStageA.cols
             /\ \A i \in 1..NRows(CurStageA) : CurStageA.rows[i].id \notin SelIdSet )
           => out.dff_sel = CurStageA
        /\ ( /\ SelIdSet = {} \/ "id" \notin CurStageA.cols
             /\ \A i \in 1..NRows(CurStageA) :
                   RowCoords(CurStageA.rows[i]) \notin SelCoordSet )
           => out.dff_sel = CurStageA
        /\ hoverData.kind = "none" => CurStageA = CurBase

\* C1 witness: a selection by identifiers that match no row of a non-empty
\* incoming subset, which a hover has narrowed, has been ignored.
StaleSelectionWitness ==
    /\ out.status = "ok"
    /\ SelIdSet # {}
    /\ "id" \in CurStageA.cols
    /\ \A i \in 1..NRows(CurStageA) : CurStageA.rows[i].id \notin SelIdSet
    /\ NRows(CurStageA) > 0
    /\ NRows(CurStageA) < NRows(CurBase)
    /\ out.dff_sel = CurStageA

\* C2: when the subset has an id column and selected points carry
\* identifiers, the final subset is exactly the incoming rows whose id is
\* selected, provided one is; coordinates are not matched in that case,
\* and are matched only when no point carries an identifier or the subset
\* has no id column.
IdPathPreferred ==
    out.status = "ok" =>
        /\ (SelIdSet # {} /\ "id" \in CurStageA.cols) =>
              IF \E i \in 1..NRows(CurStageA) : CurStageA.rows[i].id \in SelIdSet
              THEN /\ out.dff_sel.cols = CurStageA.cols
                   /\ out.dff_sel.rows =
                         RowsWhere(CurStageA, LAMBDA r : r.id \in SelIdSet)
              ELSE out.dff_sel = CurStageA
        /\ "_lat" \in out.dff_sel.cols =>
              SelIdSet = {} \/ "id" \notin CurStageA.cols

\* C2 witness: identifiers have narrowed the subset to rows whose
\* coordinates no selected point has.
IdPathWitness ==
    /\ out.status = "ok"
    /\ SelIdSet # {}
    /\ "id" \in CurStageA.cols
    /\ NRows(out.dff_sel) > 0
    /\ NRows(out.dff_sel) < NRows(CurStageA)
    /\ \A i \in 1..NRows(out.dff_sel) :
          /\ out.dff_sel.rows[i].id \in SelIdSet
          /\ RowCoords(out.dff_sel.rows[i]) \notin SelCoordSet

\* C9: reconciliation only narrows: every row of the final subset is a row
\* of the Stage A output and occurs no more often than it does there.
OnlyNarrows ==
    out.status = "ok" =>
        \A i \in 1..NRows(out.dff_sel) :
            LET r == Project(out.dff_sel.rows[i], CurStageA.cols)
            IN  /\ Occurrences(r, CurStageA.rows) > 0
                /\ Occurrences(r, [j \in 1..NRows(out.dff_sel) |->
                                     Project(out.dff_sel.rows[j], CurStageA.cols)])
                      <= Occurrences(r, CurStageA.rows)

-----------------------------------------------------------------------------
(* Hover properties, checked under SpecHover. *)

\* The hover payload gives a point with two numbers.
HoverParsable ==
    /\ hoverData.kind = "dict"
    /\ Len(hoverData.points) > 0
    /\ hoverData.points[1].lat.k = "num"
    /\ hoverData.points[1].lon.k = "num"

Located(r) == r.latitude.k = "num" /\ r.longitude.k = "num"

\* L1 distance of a located row to the hover point.
Distance(r) ==
    Abs(r.latitude.v - hoverData.points[1].lat.v)
        + Abs(r.longitude.v - hoverData.points[1].lon.v)

\* Row i of the base subset is as close to the hover point as any row.
Closest(i) ==
    /\ Located(CurBase.rows[i])
    /\ \A j \in 1..NRows(CurBase) :
          Located(CurBase.rows[j]) =>
              Distance(CurBase.rows[j]) >= Distance(CurBase.rows[i])

FirstClosest(i) == Closest(i) /\ \A j \in 1..(i - 1) : ~Closest(j)

AreaKnown(i) == CurBase.rows[i].neighbourhood_cleansed # "NaN"

InAreaOf(i) ==
    RowsWhere(CurBase, LAMBDA r : r.neighbourhood_cleansed =
                                     CurBase.rows[i].neighbourhood_cleansed)

\* When the base subset is left alone by a hover: no usable hover point,
\* no row, no coordinates.
HoverCannotFocus ==
    \/ ~HoverParsable
    \/ NRows(CurBase) = 0
    \/ ~HasCoords(CurBase)
    \/ \A i \in 1..NRows(CurBase) : ~Located(CurBase.rows[i])

\* C3 as stated: with a usable hover point, coordinates and an area column,
\* Stage A keeps exactly the rows of the neighborhood of a closest row (L1
\* distance), whichever row that is; a malformed payload, an empty subset
\* or a subset without coordinates leaves the subset unchanged.
HoverFocusesOnClosest ==
    out.status = "ok" =>
        /\ ( /\ HoverParsable
             /\ HasCoords(CurBase)
             /\ "neighbourhood_cleansed" \in CurBase.cols )
           => \A i \in 1..NRows(CurBase) :
                 (Closest(i) /\ AreaKnown(i)) => out.dff_sel.rows = InAreaOf(i)
        /\ HoverCannotFocus => out.dff_sel = CurBase

\* C3 amended: among equally close rows the first in table order decides:
\* Stage A keeps exactly the rows of the neighborhood of the first closest
\* row, when that neighborhood is known; the no-op cases are as stated.
HoverFocusesOnFirstClosest ==
    out.status = "ok" =>
        /\ ( /\ HoverParsable
             /\ HasCoords(CurBase)
             /\ "neighbourhood_cleansed" \in CurBase.cols )
           => \A i \in 1..NRows(CurBase) :
                 (FirstClosest(i) /\ AreaKnown(i)) =>
                     /\ out.dff_sel.cols = CurBase.cols
                     /\ out.dff_sel.rows = InAreaOf(i)
        /\ HoverCannotFocus => out.dff_sel = CurBase

\* C3 witness: two rows of different known neighborhoods are equally close
\* to the hover point, and the hover has narrowed the subset to the
\* neighborhood of the first.
HoverFocusWitness ==
    /\ out.status = "ok"
    /\ HoverParsable
    /\ HasCoords(CurBase)
    /\ "neighbourhood_cleansed" \in CurBase.cols
    /\ \E i, j \in 1..NRows(CurBase) :
          /\ FirstClosest(i) /\ AreaKnown(i)
          /\ Closest(j) /\ AreaKnown(j)
          /\ InAreaOf(i) # InAreaOf(j)
          /\ out.dff_sel.rows = InAreaOf(i)
    /\ NRows(out.dff_sel) > 0
    /\ NRows(out.dff_sel) < NRows(CurBase)

\* C8: a non-empty base subset is never narrowed to nothing, by the hover
\* focus or by the selection; an empty base subset gives an empty final
\* subset.
NoStageEmpties ==
    out.status = "ok" =>
        /\ NRows(CurBase) > 0 => NRows(CurStageA) > 0 /\ NRows(out.dff_sel) > 0
        /\ NRows(CurBase) = 0 => NRows(out.dff_sel) = 0

-----------------------------------------------------------------------------
(* Page properties, checked under Spec. *)

\* C4: a click on Clear gives, in its own update, figures built from the
\* base filtered subset alone (no selection, no hover focus), and a map
\* whose uirevision differs from that of the map shown before the click.
ClearGivesFreshMap ==
    [][(n_clicks' # n_clicks /\ out.status = "ok") =>
          /\ out'.status = "ok"
          /\ out'.dff_sel = Base(df_cache'.df, room_types', price_range', min_nights')
          /\ out'.uirevision # out.uirevision]_vars

\* C10: the table is read once, on the first update, and the cached frame
\* stays the frame that was read whatever updates follow; an update's
\* figures are those of the three stages applied to that frame and the
\* update's own inputs.
CacheWrittenOnce ==
    /\ reads <= 1
    /\ df_cache.set <=> reads = 1
    /\ df_cache.set <=> out.status # "none"
    /\ df_cache.set => df_cache.df = LoadedFrame(file)
    /\ out.status = "ok" =>
          out = Figures(StageB(LoadedFrame(file), room_types, price_range,
                               min_nights, hoverData, selectedData),
                        UiRevisionKey(room_types, price_range, min_nights,
                                      n_clicks))

\* C10 witness: after the first update and a Clear click, with a hover
\* active, the cache holds the frame as read, which normalization would
\* change.
CacheWitness ==
    /\ out.status = "ok"
    /\ n_clicks > 0
    /\ hoverData.kind = "dict"
    /\ reads = 1
    /\ df_cache.set
    /\ df_cache.df = LoadedFrame(file)
    /\ Normalize(df_cache.df) # df_cache.df

-----------------------------------------------------------------------------
(* Filter properties, checked under SpecFilter, where no hover and no      *)
(* selection is ever active and the figures are built from the base        *)
(* subset.                                                                 *)

\* A price range of two numbers.
WellFormedRange(pr) ==
    /\ pr.kind = "list"
    /\ Len(pr.v) = 2
    /\ pr.v[1].k = "num"
    /\ pr.v[2].k = "num"

\* The price ranges that widen the current one: a lower priceMin, a higher
\* priceMax, or both; the current one is among them.
WiderPriceRanges ==
    IF WellFormedRange(price_range)
    THEN {List(<<Num(a), Num(b)>>) :
            a \in {x \in PriceBounds : x <= price_range.v[1].v},
            b \in {x \in PriceBounds : x >= price_range.v[2].v}}
         \cup {price_range}
    ELSE {price_range}

\* The thresholds at or below the current min-nights threshold.
LowerMinNights ==
    IF min_nights.k = "num"
    THEN {Num(n) : n \in 0..min_nights.v}
    ELSE {min_nights}

\* The room-type lists that add room types to the current one.
MoreRoomTypes == {l \in RoomTypeLists : RTypes(room_types) \subseteq RTypes(l)}

\* Every row of the current figures' subset is in the base subset for the
\* criteria (rt, pr, mn).
StaysIn(rt, pr, mn) ==
    \A i \in 1..NRows(out.dff_sel) :
        \E j \in 1..NRows(Base(df_cache.df, rt, pr, mn)) :
            Base(df_cache.df, rt, pr, mn).rows[j] = out.dff_sel.rows[i]

\* C5 as stated: widening the criteria (a lower priceMin, a higher
\* priceMax, a lower minNights threshold, more room types, the empty
\* room-type set included) never removes a row from the base subset.
FilteringMonotonic ==
    out.status = "ok" =>
        \A rt \in MoreRoomTypes, pr \in WiderPriceRanges, mn \in LowerMinNights :
            StaysIn(rt, pr, mn)

\* C5 amended: widening never removes a row from the base subset when the
\* room types are added to a non-empty set (an empty set restricts
\* nothing, so adding to it narrows) and the lower minNights threshold is
\* not 0 (0 is read as 1).
FilteringMonotonicFromNonEmpty ==
    out.status = "ok" =>
        \A rt \in MoreRoomTypes, pr \in WiderPriceRanges, mn \in LowerMinNights :
            ( /\ RTypes(room_types) = {} => RTypes(rt) = {}
              /\ mn = Num(0) => min_nights = Num(0) )
            => StaysIn(rt, pr, mn)

\* C5 witness: a listing passes criteria that restrict room type, price
\* and nights, each of which can be widened.
FilteringWitness ==
    /\ out.status = "ok"
    /\ NRows(out.dff_sel) > 0
    /\ RTypes(room_types) # {}
    /\ \E rt \in MoreRoomTypes : RTypes(rt) # RTypes(room_types)
    /\ WellFormedRange(price_range)
    /\ \E pr \in WiderPriceRanges : pr.v[1] # price_range.v[1]
    /\ \E pr \in WiderPriceRanges : pr.v[2] # price_range.v[2]
    /\ min_nights.k = "num"
    /\ \E mn \in LowerMinNights : mn # Num(0) /\ mn # min_nights

\* The rows of the normalized table that pass the room-type test, a
\* min-nights threshold and a price interval.
InRoomTypes(r) == RTypes(room_types) = {} \/ r.room_type \in RTypes(room_types)

Passing(nights, lo, hi) ==
    RowsWhere(Normalize(df_cache.df),
              LAMBDA r : /\ InRoomTypes(r)
                         /\ r.minimum_nights.v >= nights
                         /\ r.price >= lo * PriceUnit
                         /\ r.price <= hi * PriceUnit)

\* The highest price of the normalized table (0 when it has no row).
TopPrice ==
    CHOOSE m \in 0..DefaultPriceMax :
        /\ \A i \in 1..NRows(Normalize(df_cache.df)) :
              Normalize(df_cache.df).rows[i].price <= m * PriceUnit
        /\ \A n \in 0..(m - 1) :
              \E i \in 1..NRows(Normalize(df_cache.df)) :
                  Normalize(df_cache.df).rows[i].price > n * PriceUnit

\* C6: malformed criteria never raise and are clamped: a price range with
\* priceMin > priceMax lets every price pass, a missing price range sets
\* no upper price limit, an absent or invalid minNights counts as 1.
MalformedCriteriaClamped ==
    /\ out.status # "error"
    /\ (out.status = "ok" /\ WellFormedRange(price_range)
          /\ price_range.v[1].v > price_range.v[2].v /\ min_nights.k = "num")
       => out.dff_sel.rows = Passing(MNights(min_nights), 0, TopPrice)
    /\ (out.status = "ok" /\ price_range.kind = "none" /\ min_nights.k = "num")
       => out.dff_sel.rows = Passing(MNights(min_nights), 0, TopPrice)
    /\ (out.status # "none" /\ WellFormedRange(price_range)
          /\ min_nights.k \in {"none", "bad"})
       => /\ out.status = "ok"
          /\ out.dff_sel.rows =
                Passing(NightsUnit, price_range.v[1].v, price_range.v[2].v)

-----------------------------------------------------------------------------
(* Normalization property, checked under SpecLoad. *)

\* C7: whatever the raw table, the first update raises no error and the
\* table as _load_listings and the top of update_all normalize it has
\* every row of the file, each with price >= 0, minimum_nights >= 1 and a
\* non-empty string room_type.
NormalizationPostcondition ==
    out.status # "none" =>
        /\ out.status = "ok"
        /\ df_cache.set
        /\ NRows(Normalize(df_cache.df)) = Len(file.rows)
        /\ \A i \in 1..NRows(Normalize(df_cache.df)) :
              /\ Normalize(df_cache.df).rows[i].price >= 0
              /\ Normalize(df_cache.df).rows[i].minimum_nights.k = "num"
              /\ Normalize(df_cache.df).rows[i].minimum_nights.v >= NightsUnit
              /\ Normalize(df_cache.df).rows[i].room_type \notin {"", "NaN"}

=============================================================================
